---- MODULE Spec2Model ----
(***************************************************************************)
(* The primitive SMTP parsers of src/parse/mod.rs (base64, number, String, *)
(* Atom, Quoted_string, Domain, sub_domain, escape_quoted,                 *)
(* unescape_quoted) and the streaming caller that feeds them: the caller   *)
(* keeps a buffer, appends the bytes it receives and re-runs the parser    *)
(* from offset 0 of the longer buffer.                                     *)
(*                                                                         *)
(* A byte is its value 0..255, a buffer or a text is a sequence of bytes   *)
(* (a text is its UTF-8 bytes).                                            *)
(* An IResult is a record: Ok((remaining, output)) is                      *)
(* [kind |-> "Parsed", value |-> output, rem |-> remaining],               *)
(* Err(Err::Incomplete(_)) is [kind |-> "Incomplete"] and                  *)
(* Err(Err::Error(_)) is [kind |-> "Invalid"].                             *)
(***************************************************************************)
EXTENDS Integers, Sequences, FiniteSets, TLC

VARIABLES
    buf,    \* the bytes the caller has received so far
    op,     \* the parser (or transform) the caller runs on buf
    out     \* what the last run of op on buf returned

vars == <<buf, op, out>>

-----------------------------------------------------------------------------
(* IResult *)

Ok(value, rem) == [kind |-> "Parsed", value |-> value, rem |-> rem]
Incomplete == [kind |-> "Incomplete"]
Error == [kind |-> "Invalid"]

\* input[n..]: the input without its first n bytes
Drop(i, n) == SubSeq(i, n + 1, Len(i))
\* input[..n]: the first n bytes of the input
Take(i, n) == SubSeq(i, 1, n)
\* take_split(n): Ok((input[n..], input[..n]))
take_split(i, n) == Ok(Take(i, n), Drop(i, n))

-----------------------------------------------------------------------------
(* nom's byte classes *)

is_alphabetic(chr) == (chr >= 65 /\ chr <= 90) \/ (chr >= 97 /\ chr <= 122)
is_digit(chr) == chr >= 48 /\ chr <= 57

-----------------------------------------------------------------------------
(* nom's streaming combinators, as the parsers below use them *)

\* Iterator::position: the 0-based index of the first byte satisfying pred,
\* -1 for None
position(pred(_), i) ==
    LET hits == {k \in 1..Len(i) : pred(i[k])}
    IN  IF hits = {} THEN -1
        ELSE (CHOOSE k \in hits : \A h \in hits : k <= h) - 1

\* bytes::streaming::tag: compares the bytes both sides have; a mismatch is an
\* Error, a matching input shorter than the tag is Incomplete
tag(t, i) ==
    LET common == IF Len(i) < Len(t) THEN Len(i) ELSE Len(t)
    IN  IF \E k \in 1..common : i[k] # t[k] THEN Error
        ELSE IF Len(i) >= Len(t) THEN take_split(i, Len(t))
        ELSE Incomplete

\* bytes::streaming::take_while: split_at_position(!cond)
take_while(cond(_), i) ==
    LET p == position(LAMBDA c : ~cond(c), i)
    IN  IF p = -1 THEN Incomplete ELSE take_split(i, p)

\* bytes::streaming::take_while1: split_at_position1(!cond)
take_while1(cond(_), i) ==
    LET p == position(LAMBDA c : ~cond(c), i)
    IN  IF p = -1 THEN Incomplete
        ELSE IF p = 0 THEN Error
        ELSE take_split(i, p)

\* character::streaming::digit1: split_at_position1(!is_dec_digit)
digit1(i) == take_while1(is_digit, i)

\* bytes::streaming::take_while_m_n
take_while_m_n(m, n, cond(_), i) ==
    LET idx == position(LAMBDA c : ~cond(c), i)
    IN  IF idx # -1
        THEN IF idx >= m
             THEN IF idx <= n THEN take_split(i, idx) ELSE take_split(i, n)
             ELSE Error
        ELSE IF Len(i) >= n THEN take_split(i, n)
             ELSE Incomplete

\* combinator::opt: an Error becomes None (here <<>>), nothing consumed
opt(f(_), i) ==
    LET r == f(i)
    IN  IF r.kind = "Invalid" THEN Ok(<<>>, i) ELSE r

\* branch::alt over two parsers: the second is tried only on the first's Error
alt(f(_), g(_), i) ==
    LET r == f(i)
    IN  IF r.kind = "Invalid" THEN g(i) ELSE r

\* branch::alt over three parsers
alt3(f(_), g(_), h(_), i) ==
    LET r == f(i)
    IN  IF r.kind = "Invalid" THEN alt(g, h, i) ELSE r

\* sequence::tuple over two parsers
tuple(f(_), g(_), i) ==
    LET r1 == f(i)
    IN  IF r1.kind # "Parsed" THEN r1
        ELSE LET r2 == g(r1.rem)
             IN  IF r2.kind # "Parsed" THEN r2
                 ELSE Ok(<<r1.value, r2.value>>, r2.rem)

\* sequence::delimited: the middle parser's output
delimited(f(_), g(_), h(_), i) ==
    LET r1 == f(i)
    IN  IF r1.kind # "Parsed" THEN r1
        ELSE LET r2 == g(r1.rem)
             IN  IF r2.kind # "Parsed" THEN r2
                 ELSE LET r3 == h(r2.rem)
                      IN  IF r3.kind # "Parsed" THEN r3
                          ELSE Ok(r2.value, r3.rem)

\* combinator::recognize: the consumed part of the input as the output
recognize(f(_), i) ==
    LET r == f(i)
    IN  IF r.kind # "Parsed" THEN r
        ELSE Ok(Take(i, Len(i) - Len(r.rem)), r.rem)

\* multi::many0: repeats f until it returns Error; Incomplete is passed on and
\* an f that consumes nothing is an Error
many0(f(_), i) ==
    LET RECURSIVE loop(_, _)
        loop(rest, acc) ==
            LET r == f(rest)
            IN  IF r.kind = "Invalid" THEN Ok(acc, rest)
                ELSE IF r.kind = "Incomplete" THEN r
                ELSE IF Len(r.rem) = Len(rest) THEN Error
                ELSE loop(r.rem, Append(acc, r.value))
    IN  loop(i, <<>>)

\* multi::separated_list1: one f, then (sep f)*; an Error of sep or of the f
\* after it ends the list before that separator
separated_list1(sep(_), f(_), i) ==
    LET RECURSIVE loop(_, _)
        loop(rest, acc) ==
            LET s == sep(rest)
            IN  IF s.kind = "Invalid" THEN Ok(acc, rest)
                ELSE IF s.kind = "Incomplete" THEN s
                ELSE IF Len(s.rem) = Len(rest) THEN Error
                ELSE LET r == f(s.rem)
                     IN  IF r.kind = "Invalid" THEN Ok(acc, rest)
                         ELSE IF r.kind = "Incomplete" THEN r
                         ELSE loop(r.rem, Append(acc, r.value))
        first == f(i)
    IN  IF first.kind # "Parsed" THEN first
        ELSE loop(first.rem, <<first.value>>)

\* combinator::map
map(f(_), g(_), i) ==
    LET r == f(i)
    IN  IF r.kind # "Parsed" THEN r ELSE Ok(g(r.value), r.rem)

\* combinator::map_res: g returns [ok, v]; its Err is an Error
map_res(f(_), g(_), i) ==
    LET r == f(i)
    IN  IF r.kind # "Parsed" THEN r
        ELSE LET o == g(r.value)
             IN  IF o.ok THEN Ok(o.v, r.rem) ELSE Error

\* std::str::from_utf8: Ok when the bytes are well-formed UTF-8, and the text
\* is then the same bytes; Err otherwise.  Well-formed sequences:
\*   00..7F
\*   C2..DF 80..BF
\*   E0 A0..BF 80..BF      E1..EC 80..BF 80..BF
\*   ED 80..9F 80..BF      EE..EF 80..BF 80..BF
\*   F0 90..BF 80..BF 80..BF
\*   F1..F3 80..BF 80..BF 80..BF
\*   F4 80..8F 80..BF 80..BF
from_utf8(bytes) ==
    LET cont(k, lo, hi) == k <= Len(bytes) /\ bytes[k] >= lo /\ bytes[k] <= hi
        RECURSIVE valid(_)
        valid(k) ==
            IF k > Len(bytes) THEN TRUE
            ELSE LET b == bytes[k]
                 IN  IF b <= 127 THEN valid(k + 1)
                     ELSE IF b >= 194 /\ b <= 223
                          THEN cont(k + 1, 128, 191) /\ valid(k + 2)
                     ELSE IF b >= 224 /\ b <= 239
                          THEN /\ cont(k + 1,
                                       IF b = 224 THEN 160 ELSE 128,
                                       IF b = 237 THEN 159 ELSE 191)
                               /\ cont(k + 2, 128, 191)
                               /\ valid(k + 3)
                     ELSE IF b >= 240 /\ b <= 244
                          THEN /\ cont(k + 1,
                                       IF b = 240 THEN 144 ELSE 128,
                                       IF b = 244 THEN 143 ELSE 191)
                               /\ cont(k + 2, 128, 191)
                               /\ cont(k + 3, 128, 191)
                               /\ valid(k + 4)
                     ELSE FALSE
    IN  IF valid(1)
        THEN [ok |-> TRUE, v |-> bytes]
        ELSE [ok |-> FALSE, v |-> <<>>]

-----------------------------------------------------------------------------
(* base64 and number *)

is_base64_char(i) == is_alphabetic(i) \/ is_digit(i) \/ i = 43 \/ i = 47

\* base64 with the padding alternatives the other way round: "=" is tried
\* before "=="
base64_short_padding_first(input) ==
    map_res(LAMBDA i1 :
                recognize(LAMBDA i2 :
                    tuple(LAMBDA i3 : take_while(is_base64_char, i3),
                          LAMBDA i3 :
                              opt(LAMBDA i4 :
                                      alt(LAMBDA i5 : tag(<<61>>, i5),
                                          LAMBDA i5 : tag(<<61, 61>>, i5),
                                          i4),
                                  i3),
                          i2),
                    i1),
            from_utf8,
            input)

\* recognize(tuple((take_while(is_base64_char), opt(alt((tag("=="), tag("=")))))))
\* mapped through from_utf8
base64(input) ==
    map_res(LAMBDA i1 :
                recognize(LAMBDA i2 :
                    tuple(LAMBDA i3 : take_while(is_base64_char, i3),
                          LAMBDA i3 :
                              opt(LAMBDA i4 :
                                      alt(LAMBDA i5 : tag(<<61, 61>>, i5),
                                          LAMBDA i5 : tag(<<61>>, i5),
                                          i4),
                                  i3),
                          i2),
                    i1),
            from_utf8,
            input)

\* A u32 is kept as two 16-bit limbs, value = hi * 65536 + lo: the width
\* stays 32 bits and no intermediate value leaves the 32-bit signed integers
\* the arithmetic is evaluated in.

\* wrapping_mul(10) followed by wrapping_add(d): the result modulo 2^32
u32_wrapping_mul10_add(v, d) ==
    LET lo10 == v.lo * 10 + d
        hi10 == v.hi * 10 + lo10 \div 65536
    IN  [ok |-> TRUE, v |-> [hi |-> hi10 % 65536, lo |-> lo10 % 65536]]

\* checked_mul(10) followed by checked_add(d): ok = FALSE on overflow of u32
u32_mul10_add(v, d) ==
    LET lo10 == v.lo * 10 + d
        hi10 == v.hi * 10 + lo10 \div 65536
    IN  IF hi10 > 65535
        THEN [ok |-> FALSE, v |-> v]
        ELSE [ok |-> TRUE, v |-> [hi |-> hi10, lo |-> lo10 % 65536]]

\* str::parse::<u32> (u32::from_str_radix(src, 10)): Err on the empty string,
\* on a byte that is no digit (after one optional leading '+') and on overflow
parse_u32(src) ==
    LET RECURSIVE loop(_, _)
        loop(digits, result) ==
            IF digits = <<>> THEN [ok |-> TRUE, v |-> result]
            ELSE IF ~is_digit(digits[1]) THEN [ok |-> FALSE, v |-> result]
            ELSE LET next == u32_mul10_add(result, digits[1] - 48)
                 IN  IF ~next.ok THEN next ELSE loop(Tail(digits), next.v)
        zero == [hi |-> 0, lo |-> 0]
    IN  IF src = <<>> THEN [ok |-> FALSE, v |-> zero]
        ELSE IF src[1] = 43
             THEN IF Len(src) = 1 THEN [ok |-> FALSE, v |-> zero]
                  ELSE loop(Tail(src), zero)
        ELSE loop(src, zero)

\* map_res(map_res(digit1, from_utf8), str::parse::<u32>)
number(input) ==
    map_res(LAMBDA i1 : map_res(digit1, from_utf8, i1), parse_u32, input)

-----------------------------------------------------------------------------
(* String, Atom, Quoted_string *)

\* allowed = b"!#$%&'*+-/=?^_`{|}~"
is_atext(byte) ==
    \/ is_alphabetic(byte)
    \/ is_digit(byte)
    \/ byte \in {33, 35, 36, 37, 38, 39, 42, 43, 45, 47, 61, 63, 94, 95, 96,
                 123, 124, 125, 126}

\* Atom reading with bytes::complete::take_while1, which takes the end of
\* the buffer for the end of the token
Atom_complete(input) ==
    LET p == position(LAMBDA c : ~is_atext(c), input)
        n == IF p = -1 THEN Len(input) ELSE p
    IN  IF n = 0 THEN Error ELSE take_split(input, n)

\* Atom = 1*atext
Atom(input) == map_res(LAMBDA i1 : take_while1(is_atext, i1), from_utf8, input)

\* qtextSMTP = %d32-33 / %d35-91 / %d93-126
is_qtextSMTP(byte) ==
    \/ (byte >= 32 /\ byte <= 33)
    \/ (byte >= 35 /\ byte <= 91)
    \/ (byte >= 93 /\ byte <= 126)

\* quoted-pairSMTP = %d92 %d32-126: any printable byte after the backslash
is_value_any(byte) == byte >= 32 /\ byte <= 126

\* quoted_pairSMTP's is_value: only "\\" and "\"" are accepted
is_value(byte) == byte = 92 \/ byte = 34

\* recognize(tuple((tag("\\"), take_while_m_n(1, 1, is_value))))
quoted_pairSMTP(input) ==
    recognize(LAMBDA i1 :
                  tuple(LAMBDA i2 : tag(<<92>>, i2),
                        LAMBDA i2 : take_while_m_n(1, 1, is_value, i2),
                        i1),
              input)

\* recognize(alt((take_while_m_n(1, 1, is_qtextSMTP), quoted_pairSMTP)))
QcontentSMTP(input) ==
    recognize(LAMBDA i1 :
                  alt(LAMBDA i2 : take_while_m_n(1, 1, is_qtextSMTP, i2),
                      quoted_pairSMTP,
                      i1),
              input)

\* str::contains(pat)
contains(s, pat) ==
    \E k \in 0..(Len(s) - Len(pat)) : SubSeq(s, k + 1, k + Len(pat)) = pat

\* str::replace(from, to): every non-overlapping match of from, found left to
\* right, is replaced by to
RECURSIVE replace(_, _, _)
replace(s, from, to) ==
    IF Len(s) < Len(from) THEN s
    ELSE IF Take(s, Len(from)) = from
         THEN to \o replace(Drop(s, Len(from)), from, to)
         ELSE <<s[1]>> \o replace(Tail(s), from, to)

\* escape_quoted with the two replacements the other way round: quotes
\* first, then backslashes
escape_quoted_quote_first(unescaped) ==
    LET escaped1 == IF contains(unescaped, <<34>>)
                    THEN replace(unescaped, <<34>>, <<92, 34>>)
                    ELSE unescaped
    IN  IF contains(escaped1, <<92>>)
        THEN replace(escaped1, <<92>>, <<92, 92>>)
        ELSE escaped1

escape_quoted(unescaped) ==
    LET escaped1 == IF contains(unescaped, <<92>>)
                    THEN replace(unescaped, <<92>>, <<92, 92>>)
                    ELSE unescaped
    IN  IF contains(escaped1, <<34>>)
        THEN replace(escaped1, <<34>>, <<92, 34>>)
        ELSE escaped1

unescape_quoted(escaped) ==
    LET unescaped1 == IF contains(escaped, <<92, 92>>)
                      THEN replace(escaped, <<92, 92>>, <<92>>)
                      ELSE escaped
    IN  IF contains(unescaped1, <<92, 34>>)
        THEN replace(unescaped1, <<92, 34>>, <<34>>)
        ELSE unescaped1

\* Quoted-string = DQUOTE *QcontentSMTP DQUOTE, unescaped
Quoted_string(input) ==
    map(LAMBDA i1 :
            delimited(LAMBDA i2 : tag(<<34>>, i2),
                      LAMBDA i2 :
                          map_res(LAMBDA i3 :
                                      recognize(LAMBDA i4 : many0(QcontentSMTP, i4),
                                                i3),
                                  from_utf8,
                                  i2),
                      LAMBDA i2 : tag(<<34>>, i2),
                      i1),
        unescape_quoted,
        input)

\* AtomOrQuoted::Atom(text) and AtomOrQuoted::Quoted(text)
AtomVariant(text) == [variant |-> "Atom", text |-> text]
QuotedVariant(text) == [variant |-> "Quoted", text |-> text]

\* String building the Atom variant from either alternative
String_always_atom(input) ==
    alt(LAMBDA i1 : map(Atom, AtomVariant, i1),
        LAMBDA i1 : map(Quoted_string, AtomVariant, i1),
        input)

\* String = Atom / Quoted-string
String(input) ==
    alt(LAMBDA i1 : map(Atom, AtomVariant, i1),
        LAMBDA i1 : map(Quoted_string, QuotedVariant, i1),
        input)

-----------------------------------------------------------------------------
(* Domain *)

\* Let-dig = ALPHA / DIGIT
is_Let_dig(byte) == is_alphabetic(byte) \/ is_digit(byte)

\* Ldh_str without the hyphen alternative
Ldh_str_no_hyphen(input) ==
    recognize(LAMBDA i1 :
                  many0(LAMBDA i2 :
                            alt(LAMBDA i3 : take_while_m_n(1, 1, is_alphabetic, i3),
                                LAMBDA i3 : take_while_m_n(1, 1, is_digit, i3),
                                i2),
                        i1),
              input)

\* Ldh_str taking a hyphen whatever follows it
Ldh_str_any_hyphen(input) ==
    recognize(LAMBDA i1 :
                  many0(LAMBDA i2 :
                            alt3(LAMBDA i3 : take_while_m_n(1, 1, is_alphabetic, i3),
                                 LAMBDA i3 : take_while_m_n(1, 1, is_digit, i3),
                                 LAMBDA i3 : tag(<<45>>, i3),
                                 i2),
                        i1),
              input)

\* recognize(many0(alt((one ALPHA, one DIGIT, recognize("-" Let-dig)))))
Ldh_str(input) ==
    recognize(LAMBDA i1 :
                  many0(LAMBDA i2 :
                            alt3(LAMBDA i3 : take_while_m_n(1, 1, is_alphabetic, i3),
                                 LAMBDA i3 : take_while_m_n(1, 1, is_digit, i3),
                                 LAMBDA i3 :
                                     recognize(LAMBDA i4 :
                                         tuple(LAMBDA i5 : tag(<<45>>, i5),
                                               LAMBDA i5 :
                                                   take_while_m_n(1, 1, is_Let_dig, i5),
                                               i4),
                                         i3),
                                 i2),
                        i1),
              input)

\* sub-domain = Let-dig [Ldh-str]
sub_domain(input) ==
    recognize(LAMBDA i1 :
                  tuple(LAMBDA i2 : take_while_m_n(1, 1, is_Let_dig, i2),
                        LAMBDA i2 : opt(Ldh_str, i2),
                        i1),
              input)

\* Domain stopping after its first sub-domain
Domain_one_label(input) ==
    map_res(LAMBDA i1 : recognize(sub_domain, i1), from_utf8, input)

\* Domain = sub-domain *("." sub-domain)
Domain(input) ==
    map_res(LAMBDA i1 :
                recognize(LAMBDA i2 :
                              separated_list1(LAMBDA i3 : tag(<<46>>, i3),
                                              sub_domain,
                                              i2),
                          i1),
            from_utf8,
            input)

-----------------------------------------------------------------------------
(* The inputs of the model *)

\* the longest buffer fed to a parser, the longest buffer fed to
\* Quoted_string, the longest text given to escape_quoted or unescape_quoted,
\* the longest digit run fed to number and the bytes fed after that run
MaxLen == 6
MaxQuotedLen == 7
MaxTextLen == 7
MaxDigits == 11
MaxTail == 2

Parsers == {"String", "Atom", "Quoted_string", "Domain", "sub_domain",
            "base64", "number"}
Transforms == {"escape_quoted", "unescape_quoted"}

\* The bytes a parser is fed: one byte of every class its grammar tells apart.
\*   97 'a'  57 '9'  48 '0'  45 '-'  46 '.'  63 '?'  34 '"'  92 '\'  32 ' '
\*   43 '+'  61 '='  10 line feed
Bytes(p) ==
    CASE p \in {"Domain", "sub_domain"} -> {97, 57, 45, 46, 63}
      [] p \in {"String", "Atom"} -> {97, 34, 92, 32}
      [] p = "Quoted_string" -> {97, 34, 92, 10}
      [] p = "base64" -> {97, 43, 61, 63}
      [] p = "number" -> {48, 57, 97}
      [] p \in Transforms -> {97, 34, 92}

\* Buffers fed whatever their length: the inputs the documentation names and
\* the decimal numbers around the largest u32
\*   "example???", "a.b-c.d9?", "a-b.c-9?", "a-.b", "-a.b", "foo@bar",
\*   "\"a\\\"b\"", "QQ==", "007?", "4294967295?", "4294967296?", "04294967295?",
\*   "04294967296?", "4294967300?"
Examples(p) ==
    CASE p \in {"Domain", "sub_domain"} ->
            {<<101, 120, 97, 109, 112, 108, 101, 63, 63, 63>>,
             <<97, 46, 98, 45, 99, 46, 100, 57, 63>>,
             <<97, 45, 98, 46, 99, 45, 57, 63>>,
             <<97, 45, 46, 98>>,
             <<45, 97, 46, 98>>}
      [] p \in {"String", "Atom"} ->
            {<<102, 111, 111, 64, 98, 97, 114>>,
             <<34, 97, 92, 34, 98, 34>>}
      [] p = "Quoted_string" -> {<<34, 97, 92, 34, 98, 34>>}
      [] p = "base64" -> {<<81, 81, 61, 61>>}
      [] p = "number" ->
            {<<48, 48, 55, 63>>,
             <<52, 50, 57, 52, 57, 54, 55, 50, 57, 53, 63>>,
             <<52, 50, 57, 52, 57, 54, 55, 50, 57, 54, 63>>,
             <<48, 52, 50, 57, 52, 57, 54, 55, 50, 57, 53, 63>>,
             <<48, 52, 50, 57, 52, 57, 54, 55, 50, 57, 54, 63>>,
             <<52, 50, 57, 52, 57, 54, 55, 51, 48, 48, 63>>}
      [] OTHER -> {}

IsPrefix(s, t) == Len(s) <= Len(t) /\ Take(t, Len(s)) = s

\* the number of digits s begins with
LeadingDigits(s) ==
    LET p == position(LAMBDA c : ~is_digit(c), s)
    IN  IF p = -1 THEN Len(s) ELSE p

\* s is a buffer the model feeds to parser p
IsInput(p, s) ==
    \/ \E e \in Examples(p) : IsPrefix(s, e)
    \/ /\ \A k \in 1..Len(s) : s[k] \in Bytes(p)
       /\ CASE p = "number" ->
                 /\ LeadingDigits(s) <= MaxDigits
                 /\ Len(s) - LeadingDigits(s) <= MaxTail
            [] p = "Quoted_string" -> Len(s) <= MaxQuotedLen
            [] OTHER -> Len(s) <= MaxLen

\* the bytes that can arrive next
NextBytes(p) ==
    Bytes(p) \cup UNION {{e[k] : k \in 1..Len(e)} : e \in Examples(p)}

\* the texts given to escape_quoted and unescape_quoted
Texts == UNION {[1..n -> Bytes("escape_quoted")] : n \in 0..MaxTextLen}

-----------------------------------------------------------------------------
(* The caller *)

\* the transform has not run yet
NotRun == [kind |-> "NotRun"]
\* the text a transform returned
Text(t) == [kind |-> "Text", value |-> t]

\* A parse session starts on the empty buffer, which the parser has been run
\* on; a transform session starts with the text to transform.
Init ==
    \/ /\ op = "String"
       /\ buf = <<>>
       /\ out = String(buf)
    \/ /\ op = "Atom"
       /\ buf = <<>>
       /\ out = Atom(buf)
    \/ /\ op = "Quoted_string"
       /\ buf = <<>>
       /\ out = Quoted_string(buf)
    \/ /\ op = "Domain"
       /\ buf = <<>>
       /\ out = Domain(buf)
    \/ /\ op = "sub_domain"
       /\ buf = <<>>
       /\ out = sub_domain(buf)
    \/ /\ op = "base64"
       /\ buf = <<>>
       /\ out = base64(buf)
    \/ /\ op = "number"
       /\ buf = <<>>
       /\ out = number(buf)
    \/ /\ op \in Transforms
       /\ buf \in Texts
       /\ out = NotRun

\* The caller receives one more byte, appends it to the buffer and runs the
\* parser again from offset 0 of the longer buffer.
Receive(p, x) ==
    /\ op = p
    /\ x \in NextBytes(p)
    /\ IsInput(p, Append(buf, x))
    /\ buf' = Append(buf, x)
    /\ UNCHANGED op

RetryString == \E x \in NextBytes("String") :
    Receive("String", x) /\ out' = String(buf')

RetryAtom == \E x \in NextBytes("Atom") :
    Receive("Atom", x) /\ out' = Atom(buf')

RetryQuoted_string == \E x \in NextBytes("Quoted_string") :
    Receive("Quoted_string", x) /\ out' = Quoted_string(buf')

RetryDomain == \E x \in NextBytes("Domain") :
    Receive("Domain", x) /\ out' = Domain(buf')

Retrysub_domain == \E x \in NextBytes("sub_domain") :
    Receive("sub_domain", x) /\ out' = sub_domain(buf')

Retrybase64 == \E x \in NextBytes("base64") :
    Receive("base64", x) /\ out' = base64(buf')

Retrynumber == \E x \in NextBytes("number") :
    Receive("number", x) /\ out' = number(buf')

Callescape_quoted ==
    /\ op = "escape_quoted"
    /\ out = NotRun
    /\ out' = Text(escape_quoted(buf))
    /\ UNCHANGED <<buf, op>>

Callunescape_quoted ==
    /\ op = "unescape_quoted"
    /\ out = NotRun
    /\ out' = Text(unescape_quoted(buf))
    /\ UNCHANGED <<buf, op>>

Next ==
    \/ RetryString
    \/ RetryAtom
    \/ RetryQuoted_string
    \/ RetryDomain
    \/ Retrysub_domain
    \/ Retrybase64
    \/ Retrynumber
    \/ Callescape_quoted
    \/ Callunescape_quoted

Spec == Init /\ [][Next]_vars

-----------------------------------------------------------------------------
(* What the claims are stated with *)

\* what parser p returns on buffer b
Parse(p, b) ==
    CASE p = "String" -> String(b)
      [] p = "Atom" -> Atom(b)
      [] p = "Quoted_string" -> Quoted_string(b)
      [] p = "Domain" -> Domain(b)
      [] p = "sub_domain" -> sub_domain(b)
      [] p = "base64" -> base64(b)
      [] p = "number" -> number(b)

Parsed == out.kind = "Parsed"

\* the byte classes of the grammar, as sets
ALPHA == (65..90) \cup (97..122)
DIGIT == 48..57
LetDig == ALPHA \cup DIGIT
QText == (32..33) \cup (35..91) \cup (93..126)
Base64Alphabet == ALPHA \cup DIGIT \cup {43, 47}

\* the length of the longest prefix of s made of bytes of class
RunLength(s, class) ==
    CHOOSE n \in 0..Len(s) :
        /\ \A k \in 1..n : s[k] \in class
        /\ n < Len(s) => s[n + 1] \notin class

\* l matches Let-dig *( ALPHA / DIGIT / ("-" Let-dig) )
IsLabel(l) ==
    /\ Len(l) >= 1
    /\ l[1] \in LetDig
    /\ \A k \in 2..Len(l) :
          \/ l[k] \in LetDig
          \/ l[k] = 45 /\ k < Len(l) /\ l[k + 1] \in LetDig

\* l is made of letters, digits and hyphens and begins and ends with a letter
\* or digit
IsLdhLabel(l) ==
    /\ Len(l) >= 1
    /\ \A k \in 1..Len(l) : l[k] \in LetDig \cup {45}
    /\ l[1] \in LetDig
    /\ l[Len(l)] \in LetDig

\* d is one or more parts joined by single '.' bytes, every part satisfying
\* label
IsJoined(d, label(_)) ==
    LET cuts == {0, Len(d) + 1} \cup {k \in 1..Len(d) : d[k] = 46}
    IN  \A p \in cuts \ {Len(d) + 1} :
            LET q == CHOOSE c \in cuts : c > p /\ \A e \in cuts : e > p => c <= e
            IN  label(SubSeq(d, p + 1, q - 1))

\* d matches sub-domain *("." sub-domain)
IsDomain(d) == IsJoined(d, IsLabel)

-----------------------------------------------------------------------------
(* C1 *)

\* C1: a verdict is stable under streaming retry.  When the caller appends a
\* byte x to a buffer on which the parser returned Parsed(value, remainder),
\* the parser returns Parsed(value, remainder ++ x) on the longer buffer, and
\* when it returned Invalid it returns Invalid again; only Incomplete can turn
\* into something else.  Byte by byte, this gives the claim for every
\* appended byte sequence.
C1_VerdictStable ==
    [][(op \in Parsers /\ buf' # buf) =>
            /\ out.kind = "Parsed" =>
                  out' = Ok(out.value, Append(out.rem, buf'[Len(buf')]))
            /\ out.kind = "Invalid" => out'.kind = "Invalid"]_vars

\* a Domain verdict that has seen two more bytes arrive after it was reached
C1_Witness ==
    /\ op = "Domain"
    /\ Parsed
    /\ Len(out.value) >= 3
    /\ Len(out.rem) >= 2

-----------------------------------------------------------------------------
(* C2 *)

\* the longest continuation tried after an Incomplete
MaxExt == 2

\* the continuations of a buffer fed to parser p
Extensions(p) == UNION {[1..n -> Bytes(p)] : n \in 1..MaxExt}

\* C2: Incomplete is returned only for a buffer that some continuation turns
\* into a match.  Whenever String, Atom, Quoted_string, Domain, base64 or
\* number returns Incomplete on the buffer, there are bytes x such that the
\* parser returns Parsed on the buffer followed by x; this includes number on
\* a run of digits whose value is already above the u32 range.
C2_IncompleteIsPrefixOfMatch ==
    (op \in Parsers \ {"sub_domain"} /\ out.kind = "Incomplete") =>
        \E x \in Extensions(op) : Parse(op, buf \o x).kind = "Parsed"

-----------------------------------------------------------------------------
(* C3 *)

\* w is a sequence of qtextSMTP bytes and of the pairs \\ and \"
RECURSIVE IsWire(_)
IsWire(w) ==
    \/ w = <<>>
    \/ w[1] \in QText /\ IsWire(Tail(w))
    \/ Len(w) >= 2 /\ w[1] = 92 /\ w[2] \in {92, 34} /\ IsWire(Drop(w, 2))

\* C3: escape_quoted and unescape_quoted are inverses.  Unescaping what
\* escape_quoted returned for a text s gives s back, for every s, raw
\* backslashes and quotes in any arrangement included; and escaping what
\* unescape_quoted returned for a well-formed wire content w gives w back.
C3_EscapeUnescapeInverse ==
    /\ (op = "escape_quoted" /\ out.kind = "Text") =>
          unescape_quoted(out.value) = buf
    /\ (op = "unescape_quoted" /\ out.kind = "Text" /\ IsWire(buf)) =>
          escape_quoted(out.value) = buf

\* a text with a backslash directly before a quote has been escaped
C3_Witness ==
    /\ op = "escape_quoted"
    /\ out.kind = "Text"
    /\ contains(buf, <<92, 92, 34>>)
    /\ Len(out.value) = Len(buf) + 3

-----------------------------------------------------------------------------
(* C4 *)

\* Reads QcontentSMTP units from the start of s, one at a time, decoding
\* each: a qtextSMTP byte stands for itself, \\ for one backslash, \" for one
\* quote.  stop tells what ended the units: "byte" (a byte that starts no
\* unit, rest begins with it), "pair" (a backslash followed by a byte other
\* than backslash and quote) or "end" (the end of s).
RECURSIVE ReadUnits(_, _)
ReadUnits(s, decoded) ==
    IF s = <<>> THEN [stop |-> "end", decoded |-> decoded, rest |-> s]
    ELSE IF s[1] \in QText THEN ReadUnits(Tail(s), Append(decoded, s[1]))
    ELSE IF s[1] # 92 THEN [stop |-> "byte", decoded |-> decoded, rest |-> s]
    ELSE IF Len(s) = 1 THEN [stop |-> "end", decoded |-> decoded, rest |-> s]
    ELSE IF s[2] \in {92, 34} THEN ReadUnits(Drop(s, 2), Append(decoded, s[2]))
    ELSE [stop |-> "pair", decoded |-> decoded, rest |-> s]

\* C4: Quoted_string decodes its content unit by unit.  On a buffer
\* DQUOTE c DQUOTE rest, c a sequence of QcontentSMTP units, it returns Parsed
\* with remainder rest and the value the left-to-right decoding of c; on a
\* buffer DQUOTE c followed by a backslash and a byte other than backslash
\* and quote it returns Invalid.
C4_QuotedDecodesUnits ==
    (op = "Quoted_string" /\ buf # <<>> /\ buf[1] = 34) =>
        LET u == ReadUnits(Tail(buf), <<>>)
        IN  /\ (u.stop = "byte" /\ u.rest[1] = 34) =>
                  out = Ok(u.decoded, Tail(u.rest))
            /\ u.stop = "pair" => out.kind = "Invalid"

\* the content \\\" (the unit \\ directly before the unit \") was decoded
C4_Witness ==
    /\ op = "Quoted_string"
    /\ Parsed
    /\ buf = <<34, 92, 92, 92, 34, 34>>
    /\ out.value = <<92, 34>>

-----------------------------------------------------------------------------
(* C5 *)

\* the length of the longest prefix of b that is a label, 0 if there is none
LongestLabel(b) ==
    CHOOSE n \in 0..Len(b) :
        /\ n > 0 => IsLabel(Take(b, n))
        /\ \A m \in (n + 1)..Len(b) : ~IsLabel(Take(b, m))

\* C5: sub_domain returns the longest label prefix and leaves the rest.  On
\* a buffer l ++ rest, l its longest prefix that is a label, rest not empty
\* and beginning with bytes that cannot extend l (a byte other than a letter,
\* a digit and a hyphen, or a hyphen and one more byte), sub_domain returns
\* Parsed with value l and remainder rest.
C5_SubDomainLongestLabel ==
    LET n == LongestLabel(buf)
        rest == Drop(buf, n)
    IN  (op = "sub_domain" /\ n > 0 /\ rest # <<>> /\ rest # <<45>>) =>
            out = Ok(Take(buf, n), rest)

\* a label with a hyphen inside was returned and a hyphen was left in the
\* remainder
C5_Witness ==
    /\ op = "sub_domain"
    /\ Parsed
    /\ contains(out.value, <<45>>)
    /\ out.rem[1] = 45

-----------------------------------------------------------------------------
(* C6 *)

\* C6 as stated: on a buffer that is exactly a valid domain, Domain returns
\* Parsed with the whole buffer as the value and an empty remainder.
C6_DomainAloneIsParsed ==
    (op = "Domain" /\ IsDomain(buf)) => out = Ok(buf, <<>>)

\* C6, amended: on a buffer that is exactly a valid domain, Domain returns
\* Incomplete, and on a valid domain d followed by a byte that cannot
\* continue it (not a letter, a digit, a hyphen or a dot), and by anything
\* after that byte, it returns Parsed with value d and the remainder
\* beginning at that byte.
C6_DomainNeedsTerminator ==
    /\ (op = "Domain" /\ IsDomain(buf)) => out.kind = "Incomplete"
    /\ \A n \in 1..(Len(buf) - 1) :
          (/\ op = "Domain"
           /\ IsDomain(Take(buf, n))
           /\ buf[n + 1] \notin LetDig \cup {45, 46}) =>
              out = Ok(Take(buf, n), Drop(buf, n))

\* a domain of several labels, one with a hyphen, was returned in full
C6_Witness ==
    /\ op = "Domain"
    /\ Parsed
    /\ contains(out.value, <<46>>)
    /\ contains(out.value, <<45>>)
    /\ IsDomain(out.value)
    /\ out.rem = <<63>>

-----------------------------------------------------------------------------
(* C7 *)

\* C7: every value Domain returns is a well-formed domain and a prefix of
\* the input.  When Domain returns Parsed(value, remainder), value ++ remainder
\* is the buffer and value is one or more labels joined by single dots, every
\* label made of letters, digits and hyphens and beginning and ending with a
\* letter or digit; a buffer beginning with '-' or '.' is Invalid; and on
\* "a-.b" Domain parses only "a".
C7_DomainValueWellFormed ==
    op = "Domain" =>
        /\ Parsed =>
              /\ out.value \o out.rem = buf
              /\ IsJoined(out.value, IsLdhLabel)
        /\ (buf # <<>> /\ buf[1] \in {45, 46}) => out.kind = "Invalid"
        /\ buf = <<97, 45, 46, 98>> => out = Ok(<<97>>, <<45, 46, 98>>)

\* Domain has run on "a-.b"
C7_Witness ==
    /\ op = "Domain"
    /\ buf = <<97, 45, 46, 98>>
    /\ Parsed

-----------------------------------------------------------------------------
(* C8 *)

\* the decimal digits of d without its leading zeros (one digit at least)
RECURSIVE StripZeros(_)
StripZeros(d) ==
    IF Len(d) > 1 /\ d[1] = 48 THEN StripZeros(Tail(d)) ELSE d

\* the decimal digits of the largest u32, 4294967295
U32MaxDigits == <<52, 50, 57, 52, 57, 54, 55, 50, 57, 53>>

\* c <= e, for decimal numbers of the same length without leading zeros
DecimalLeq(c, e) ==
    \/ c = e
    \/ \E k \in 1..Len(c) :
          /\ c[k] < e[k]
          /\ \A j \in 1..(k - 1) : c[j] = e[j]

\* the value of the digits d is at most 2^32 - 1
FitsU32(d) ==
    LET c == StripZeros(d)
    IN  \/ Len(c) < Len(U32MaxDigits)
        \/ Len(c) = Len(U32MaxDigits) /\ DecimalLeq(c, U32MaxDigits)

\* the decimal digits of the u32 v, by repeated division by ten
RECURSIVE ToDecimal(_)
ToDecimal(v) ==
    LET top == (v.hi % 10) * 65536 + v.lo
        quot == [hi |-> v.hi \div 10, lo |-> top \div 10]
        last == <<48 + (top % 10)>>
    IN  IF quot.hi = 0 /\ quot.lo = 0 THEN last ELSE ToDecimal(quot) \o last

\* C8: number never wraps around.  On a buffer d ++ rest, d a non-empty run
\* of decimal digits and rest beginning with a byte that is no digit, number
\* returns Parsed(v, rest) with v the decimal value of d (leading zeros
\* ignored) when that value is at most 2^32 - 1, and Invalid when it is
\* larger.
C8_NumberNeverWraps ==
    LET n == LeadingDigits(buf)
        d == Take(buf, n)
    IN  (op = "number" /\ n > 0 /\ n < Len(buf)) =>
            IF FitsU32(d)
            THEN /\ Parsed
                 /\ out.rem = Drop(buf, n)
                 /\ out.value.hi \in 0..65535
                 /\ out.value.lo \in 0..65535
                 /\ ToDecimal(out.value) = StripZeros(d)
            ELSE out.kind = "Invalid"

\* number has run on a terminated run of digits whose value is above 2^32 - 1
C8_Witness ==
    /\ op = "number"
    /\ LeadingDigits(buf) > 0
    /\ LeadingDigits(buf) < Len(buf)
    /\ ~FitsU32(Take(buf, LeadingDigits(buf)))
    /\ out.kind = "Invalid"

-----------------------------------------------------------------------------
(* C9 *)

\* C9: base64 takes the longest padding.  When base64 returns
\* Parsed(value, remainder), value ++ remainder is the buffer and value is
\* the maximal run of base64-alphabet bytes at the start of the buffer
\* followed by "==" if the next two bytes are both '=', else by "=" if the
\* next byte is '=', else by nothing; and "QQ==" is parsed whole.
C9_Base64LongestPadding ==
    op = "base64" =>
        /\ Parsed =>
              LET n == RunLength(buf, Base64Alphabet)
                  after == Drop(buf, n)
                  pad == IF Len(after) >= 2 /\ after[1] = 61 /\ after[2] = 61
                         THEN <<61, 61>>
                         ELSE IF Len(after) >= 1 /\ after[1] = 61
                         THEN <<61>>
                         ELSE <<>>
              IN  /\ out.value \o out.rem = buf
                  /\ out.value = Take(buf, n) \o pad
        /\ buf = <<81, 81, 61, 61>> => out = Ok(buf, <<>>)

\* base64 has returned a token with the two-byte padding
C9_Witness ==
    /\ op = "base64"
    /\ Parsed
    /\ Len(out.value) >= 3
    /\ contains(out.value, <<61, 61>>)

-----------------------------------------------------------------------------
(* C10 *)

\* String with the alternation the other way round: Quoted_string first
StringQuotedFirst(input) ==
    alt(LAMBDA i1 : map(Quoted_string, QuotedVariant, i1),
        LAMBDA i1 : map(Atom, AtomVariant, i1),
        input)

\* C10: the String alternation is unambiguous.  No buffer makes both Atom
\* and Quoted_string return Parsed; String returns the Atom variant exactly
\* when Atom returns Parsed, with Atom's text and remainder, and the Quoted
\* variant exactly when Quoted_string returns Parsed, with its text and
\* remainder; and trying Quoted_string before Atom gives the same outcome.
C10_StringUnambiguous ==
    op = "String" =>
        LET a == Atom(buf)
            q == Quoted_string(buf)
        IN  /\ ~(a.kind = "Parsed" /\ q.kind = "Parsed")
            /\ (a.kind = "Parsed") <=> (Parsed /\ out.value.variant = "Atom")
            /\ (a.kind = "Parsed") => out = Ok(AtomVariant(a.value), a.rem)
            /\ (q.kind = "Parsed") <=> (Parsed /\ out.value.variant = "Quoted")
            /\ (q.kind = "Parsed") => out = Ok(QuotedVariant(q.value), q.rem)
            /\ out = StringQuotedFirst(buf)

\* String has returned the Quoted variant of a non-empty text
C10_Witness ==
    /\ op = "String"
    /\ Parsed
    /\ out.value.variant = "Quoted"
    /\ out.value.text # <<>>

====
